---- MODULE Spec2Model ----
(***************************************************************************)
(* Model of the post-pilot asynchronous AI pipeline: the Theme and Post    *)
(* records, the four Celery task bodies of backend/core/tasks.py, their    *)
(* enqueue entry points and status-checks of backend/core/api_views.py,    *)
(* and the cleanup_stuck_tasks management command.                         *)
(*                                                                         *)
(* A Django model instance is a copy of the row: instance.save() writes    *)
(* every field of the copy back (and stamps updated_at), whatever the row  *)
(* holds by then.  A task body is split where it blocks in the provider    *)
(* call; a status-check is split between its read and its save.            *)
(***************************************************************************)
EXTENDS Integers, Sequences, FiniteSets, TLC

\* ---------------------------------------------------------------- bounds
MaxTasks == 2
MaxTicks == 2
MaxBatch == 2
MaxContent == 1
MaxRaises == 1
MaxLen == 4
MaxMessages == 3

\* ------------------------------------------------------ program constants
max_retries == 3
default_retry_delay == 60
StatusTimeoutMinutes == 5
DefaultOlderThan == 30

ThemeIds == {1}
PostIds == 1..(MaxTasks + 1)
TaskIds == 1..MaxTasks
PostTypes == {"simple", "article"}
TopicNames == {"t1"}
\* texts are numbered from 1; 0 is the falsy text (null or the empty string)
Contents == 1..(MaxContent + 1)
NoText == 0
OlderThanOptions == {StatusTimeoutMinutes, DefaultOlderThan}
\* a timestamp field that is NULL
Never == 0 - 1

\* raises: how many more exceptions the behaviour may still raise in task bodies
VARIABLES now, themes, posts, tasks, chk, last, raises

vars == <<now, themes, posts, tasks, chk, last, raises>>

\* ------------------------------------------------------------- the rows
DefaultProcessingStatus == "idle"

NewTheme ==
    [exists |-> TRUE,
     is_processing |-> FALSE,
     processing_status |-> DefaultProcessingStatus,
     topics |-> <<>>,
     topics_generated_at |-> Never,
     updated_at |-> 0]

NoPost == [exists |-> FALSE]

\* the row is created with the model's defaults: status "draft", no generated_at
NewPost_Draft(theme, post_type, topic, title_content, promo, at) ==
    [exists |-> TRUE,
     theme |-> theme,
     post_type |-> post_type,
     topic |-> topic,
     content |-> title_content,
     promotional_post |-> promo,
     cover_image_prompt |-> NoText,
     status |-> "draft",
     post_date |-> at,
     generated_at |-> Never,
     generation_prompt |-> <<"Topico">>,
     is_processing |-> FALSE,
     processing_status |-> DefaultProcessingStatus,
     created_at |-> at,
     updated_at |-> at]

NewPost(theme, post_type, topic, title_content, promo, at) ==
    [exists |-> TRUE,
     theme |-> theme,
     post_type |-> post_type,
     topic |-> topic,
     content |-> title_content,
     promotional_post |-> promo,
     cover_image_prompt |-> NoText,
     status |-> "generated",
     post_date |-> at,
     generated_at |-> at,
     generation_prompt |-> <<"Topico">>,
     is_processing |-> FALSE,
     processing_status |-> DefaultProcessingStatus,
     created_at |-> at,
     updated_at |-> at]

\* a row that was deleted: its id is not given again
Deleted == [exists |-> FALSE, deleted |-> TRUE]

NoRow == [exists |-> FALSE]
NoResult == [status |-> "none"]
\* last records the latest step: the handler or task step taken, its inputs, what
\* it read and what it answered
NoResponse == [op |-> "none"]

\* the provider call behind a task step, when the step is taken for its effect alone
Unobserved == [outcome |-> "unobserved"]

FreeTask ==
    [pc |-> "free", kind |-> "none", rec |-> 0, topic |-> "none",
     post_type |-> "none", retries |-> 0, countdown |-> 0, calls |-> 0,
     local |-> NoRow, result |-> NoResult]

\* instance.save(): every field of the copy is written, auto_now stamps updated_at
save(row) == [row EXCEPT !.updated_at = now]

ExistingPosts == {p \in PostIds : posts[p].exists}

\* ------------------------------------------------------------------ Init
InitRecords ==
    /\ now = 0
    /\ themes = [t \in ThemeIds |-> NewTheme]
    /\ posts = [p \in PostIds |->
                 IF p = 1 THEN NewPost(1, "article", "t1", 1, NoText, 0) ELSE NoPost]
    /\ tasks = [i \in TaskIds |-> FreeTask]
    /\ chk = [pc |-> "idle"]
    /\ last = NoResponse

Init == InitRecords /\ raises = MaxRaises

\* the clock of timezone.now(), in minutes; it advances a staleness window at a time
Tick ==
    /\ now < MaxTicks * StatusTimeoutMinutes
    /\ now' = now + StatusTimeoutMinutes
    /\ last' = [op |-> "Tick"]
    /\ UNCHANGED <<themes, posts, tasks, chk, raises>>

\* task.delay(...): the task is handed to the worker queue
FreeSlots == {i \in TaskIds : tasks[i].pc = "free"}

delay(kind, rec, topic, post_type) ==
    /\ FreeSlots # {}
    /\ LET i == CHOOSE j \in FreeSlots : \A k \in FreeSlots : j <= k
       IN tasks' = [tasks EXCEPT ![i] =
                      [FreeTask EXCEPT !.pc = "queued", !.kind = kind, !.rec = rec,
                                       !.topic = topic, !.post_type = post_type]]

\* the fields every task body and the Reaper write
mark(row, flag, status) ==
    [row EXCEPT !.is_processing = flag, !.processing_status = status]

\* the body reaches its provider call holding the instance `row`
call(t, row) == [t EXCEPT !.pc = "called", !.local = row, !.calls = t.calls + 1]

\* the task returns without an envelope
finish_NoEnvelope(t, result) == [t EXCEPT !.pc = "done", !.result = NoResult, !.local = NoRow]

\* the body never returns: the task stays where it is
finish_NeverReturns(t, result) == t

finish(t, result) == [t EXCEPT !.pc = "done", !.result = result, !.local = NoRow]

\* every retry is delayed by default_retry_delay
retry_FixedDelay(t) ==
    [t EXCEPT !.pc = "queued", !.retries = t.retries + 1,
              !.countdown = default_retry_delay,
              !.local = NoRow]

\* self.retry(countdown=60 * (self.request.retries + 1))
retry(t) ==
    [t EXCEPT !.pc = "queued", !.retries = t.retries + 1,
              !.countdown = default_retry_delay * (t.retries + 1),
              !.local = NoRow]

\* ============================================================ Theme side

\* ThemeViewSet.generate_topics: mark, persist, then enqueue
generate_topics(t) ==
    /\ themes[t].exists
    /\ themes' = [themes EXCEPT ![t] = save(mark(@, TRUE, "processing"))]
    /\ delay("generate_topics", t, "none", "none")
    /\ last' = [op |-> "generate_topics", id |-> t, http |-> 200]
    /\ UNCHANGED <<now, posts, chk, raises>>

\* generate_topics_task, up to the provider call
generate_topics_task_Start(i) ==
    /\ tasks[i].pc = "queued"
    /\ tasks[i].kind = "generate_topics"
    /\ LET t == tasks[i].rec IN
       IF ~themes[t].exists
       THEN /\ tasks' = [tasks EXCEPT ![i] =
                   finish(@, [status |-> "error", message |-> "not_found"])]
            /\ UNCHANGED themes
       ELSE LET theme == save(mark(themes[t], TRUE, "processing")) IN
            /\ themes' = [themes EXCEPT ![t] = theme]
            /\ tasks' = [tasks EXCEPT ![i] = call(@, theme)]
    /\ last' = [op |-> "generate_topics_task_Start", task |-> i]
    /\ UNCHANGED <<now, posts, chk, raises>>

\* the batch of k topics a run of task i receives
Batch(i, k) == [j \in 1..k |-> <<i, j>>]

\* the topics of the new batch replace the list
combine_Overwrite(existing_topics, new_topics) == new_topics

combine(existing_topics, new_topics) == existing_topics \o new_topics

\* an empty batch ends the run as a completed one, the generation time stamped
generate_topics_task_Finish_From_EmptyCompleted(i, k, provider) ==
    /\ tasks[i].pc = "called"
    /\ tasks[i].kind = "generate_topics"
    /\ LET t == tasks[i].rec
           theme == tasks[i].local
           existing_topics == theme.topics
       IN IF k > 0
          THEN LET combined == IF existing_topics # <<>>
                               THEN combine(existing_topics, Batch(i, k))
                               ELSE Batch(i, k)
                   done == save([mark(theme, FALSE, "completed") EXCEPT
                                    !.topics = combined,
                                    !.topics_generated_at = now])
               IN /\ themes' = [themes EXCEPT ![t] = done]
                  /\ tasks' = [tasks EXCEPT ![i] =
                        finish(@,
                               [status |-> "success", message |-> "added",
                                topics_count |-> Len(combined),
                                new_topics_count |-> k])]
          ELSE LET done == save([mark(theme, FALSE, "completed") EXCEPT
                                    !.topics_generated_at = now])
               IN /\ themes' = [themes EXCEPT ![t] = done]
                  /\ tasks' = [tasks EXCEPT ![i] =
                        finish(@,
                               [status |-> "error", message |-> "generic"])]
    /\ last' = [op |-> "generate_topics_task_Finish", provider |-> provider, task |-> i, k |-> k,
                local |-> tasks[i].local]
    /\ UNCHANGED <<now, posts, chk, raises>>

\* generate_topics_task, from the Topic Agent's answer to the return
generate_topics_task_Finish_From(i, k, provider) ==
    /\ tasks[i].pc = "called"
    /\ tasks[i].kind = "generate_topics"
    /\ LET t == tasks[i].rec
           theme == tasks[i].local
           existing_topics == theme.topics
       IN IF k > 0
          THEN LET combined == IF existing_topics # <<>>
                               THEN combine(existing_topics, Batch(i, k))
                               ELSE Batch(i, k)
                   done == save([mark(theme, FALSE, "completed") EXCEPT
                                    !.topics = combined,
                                    !.topics_generated_at = now])
               IN /\ themes' = [themes EXCEPT ![t] = done]
                  /\ tasks' = [tasks EXCEPT ![i] =
                        finish(@,
                               [status |-> "success", message |-> "added",
                                topics_count |-> Len(combined),
                                new_topics_count |-> k])]
          ELSE LET done == save(mark(theme, FALSE, "failed"))
               IN /\ themes' = [themes EXCEPT ![t] = done]
                  /\ tasks' = [tasks EXCEPT ![i] =
                        finish(@,
                               [status |-> "error", message |-> "generic"])]
    /\ last' = [op |-> "generate_topics_task_Finish", provider |-> provider, task |-> i, k |-> k,
                local |-> tasks[i].local]
    /\ UNCHANGED <<now, posts, chk, raises>>

\* the same, the agent's answer coming from an unobserved provider call
generate_topics_task_Finish(i, k) == generate_topics_task_Finish_From(i, k, Unobserved)

\* generate_topics_task, the except Exception handler
generate_topics_task_Raise_From(i, provider) ==
    /\ tasks[i].pc = "called"
    /\ tasks[i].kind = "generate_topics"
    /\ raises > 0
    /\ raises' = raises - 1
    /\ LET t == tasks[i].rec
           cleaned == save(mark(tasks[i].local, FALSE, "failed"))
       IN IF tasks[i].retries < max_retries
          THEN /\ themes' = [themes EXCEPT ![t] = cleaned]
               /\ tasks' = [tasks EXCEPT ![i] = retry(@)]
          ELSE \* the theme is read again and written once more
               /\ themes' = [themes EXCEPT ![t] = save(mark(cleaned, FALSE, "failed"))]
               /\ tasks' = [tasks EXCEPT ![i] =
                     finish(@, [status |-> "error", message |-> "exception"])]
    /\ last' = [op |-> "generate_topics_task_Raise", provider |-> provider, task |-> i]
    /\ UNCHANGED <<now, posts, chk>>

\* the same, the exception coming from an unobserved provider call
generate_topics_task_Raise(i) == generate_topics_task_Raise_From(i, Unobserved)

\* ---------------------------------------------------------------- Reaper

stuck_Inclusive(row, limit) == row.is_processing /\ row.updated_at <= limit

\* is_processing and updated_at < limit
stuck(row, limit) == row.is_processing /\ row.updated_at < limit

\* the status field is derived from processing_status
status_response_FromProcessingStatus(kind, id, row) ==
    [op |-> "status", kind |-> kind, id |-> id,
     is_processing |-> row.is_processing,
     processing_status |-> row.processing_status,
     status |-> IF row.processing_status = "processing" THEN "processing" ELSE "completed"]

status_response(kind, id, row) ==
    [op |-> "status", kind |-> kind, id |-> id,
     is_processing |-> row.is_processing,
     processing_status |-> row.processing_status,
     status |-> IF row.is_processing THEN "processing" ELSE "completed"]

\* ThemeViewSet.status: the read and the staleness test
ThemeViewSet_status(t) ==
    /\ chk.pc = "idle"
    /\ themes[t].exists
    /\ LET theme == themes[t] IN
       IF stuck(theme, now - StatusTimeoutMinutes)
       THEN /\ chk' = [pc |-> "stale", kind |-> "theme", id |-> t,
                       row |-> mark(theme, FALSE, "timeout")]
            /\ last' = [op |-> "status_read", kind |-> "theme", id |-> t]
       ELSE /\ chk' = chk
            /\ last' = status_response("theme", t, theme)
    /\ UNCHANGED <<now, themes, posts, tasks, raises>>

\* ThemeViewSet.status: theme.save() of the stale copy, and the response
ThemeViewSet_status_save ==
    /\ chk.pc = "stale"
    /\ chk.kind = "theme"
    /\ themes' = [themes EXCEPT ![chk.id] = save(chk.row)]
    /\ last' = status_response("theme", chk.id, chk.row)
    /\ chk' = [pc |-> "idle"]
    /\ UNCHANGED <<now, posts, tasks, raises>>

\* ============================================================= Post side

\* the task is enqueued before the record is marked
improve_Unmarked(p) ==
    /\ posts[p].exists
    /\ delay("improve_post", p, "none", "none")
    /\ last' = [op |-> "improve", id |-> p, http |-> 200]
    /\ UNCHANGED <<now, themes, posts, chk, raises>>

\* a Post that is being processed is not enqueued again
improve_Exclusive(p) ==
    /\ posts[p].exists
    /\ ~posts[p].is_processing
    /\ posts' = [posts EXCEPT ![p] = save(mark(@, TRUE, "processing"))]
    /\ delay("improve_post", p, "none", "none")
    /\ last' = [op |-> "improve", id |-> p, http |-> 200]
    /\ UNCHANGED <<now, themes, chk, raises>>

\* PostViewSet.improve: mark, persist, then enqueue
improve(p) ==
    /\ posts[p].exists
    /\ posts' = [posts EXCEPT ![p] = save(mark(@, TRUE, "processing"))]
    /\ delay("improve_post", p, "none", "none")
    /\ last' = [op |-> "improve", id |-> p, http |-> 200]
    /\ UNCHANGED <<now, themes, chk, raises>>

\* the post_type is not looked at
regenerate_image_prompt_Unchecked(p) ==
    /\ posts[p].exists
    /\ posts' = [posts EXCEPT ![p] = save(mark(@, TRUE, "processing"))]
    /\ delay("regenerate_image_prompt", p, "none", "none")
    /\ last' = [op |-> "regenerate_image_prompt", id |-> p, http |-> 200]
    /\ UNCHANGED <<now, themes, chk, raises>>

\* PostViewSet.regenerate_image_prompt: only articles are marked and enqueued
regenerate_image_prompt(p) ==
    /\ posts[p].exists
    /\ IF posts[p].post_type # "article"
       THEN /\ last' = [op |-> "regenerate_image_prompt", id |-> p, http |-> 400]
            /\ UNCHANGED <<posts, tasks>>
       ELSE /\ posts' = [posts EXCEPT ![p] = save(mark(@, TRUE, "processing"))]
            /\ delay("regenerate_image_prompt", p, "none", "none")
            /\ last' = [op |-> "regenerate_image_prompt", id |-> p, http |-> 200]
    /\ UNCHANGED <<now, themes, chk, raises>>

\* ThemeViewSet.generate_post: the task is enqueued, no record is written
generate_post(t, topic, post_type) ==
    /\ themes[t].exists
    /\ delay("generate_post", t, topic, post_type)
    /\ last' = [op |-> "generate_post", id |-> t, http |-> 200]
    /\ UNCHANGED <<now, themes, posts, chk, raises>>

\* Post.objects.filter(theme=, post_type=, topic=)
filter(theme, post_type, topic) ==
    {p \in PostIds : /\ posts[p].exists
                     /\ posts[p].theme = theme
                     /\ posts[p].post_type = post_type
                     /\ posts[p].topic = topic}

\* .first() under Meta.ordering = ['-created_at']: a newest row of the set
first(ps) == {p \in ps : \A q \in ps : posts[q].created_at <= posts[p].created_at}

warning_AsError(existing_post) ==
    [status |-> "error", message |-> "exists", post_id |-> existing_post]

\* the result when a Post of the triple exists already
warning(existing_post) ==
    [status |-> "warning", message |-> "exists", post_id |-> existing_post]

\* generate_post_content_task, up to the provider call
generate_post_content_task_Start(i) ==
    /\ tasks[i].pc = "queued"
    /\ tasks[i].kind = "generate_post"
    /\ LET t == tasks[i].rec
           found == filter(t, tasks[i].post_type, tasks[i].topic)
       IN IF ~themes[t].exists
          THEN tasks' = [tasks EXCEPT ![i] =
                  finish(@, [status |-> "error", message |-> "not_found"])]
          ELSE IF found # {}
          THEN \E existing_post \in first(found) :
                 tasks' = [tasks EXCEPT ![i] = finish(@, warning(existing_post))]
          ELSE tasks' = [tasks EXCEPT ![i] = call(@, NoRow)]
    /\ last' = [op |-> "generate_post_content_task_Start", task |-> i,
                found |-> filter(tasks[i].rec, tasks[i].post_type, tasks[i].topic),
                calls |-> tasks[i].calls, themes |-> themes, posts |-> posts]
    /\ UNCHANGED <<now, themes, posts, chk, raises>>

\* the id Post.objects.create gives the new row
NextPostId == Cardinality({p \in PostIds : posts[p] # NoPost}) + 1

\* generate_post_content_task, from the Content Agent's answer to the return
generate_post_content_task_Finish_From(i, content, promotional_post, provider) ==
    /\ tasks[i].pc = "called"
    /\ tasks[i].kind = "generate_post"
    /\ NextPostId \in PostIds
    /\ LET post_type == tasks[i].post_type
           promo == IF post_type = "article" /\ promotional_post # NoText
                    THEN promotional_post ELSE NoText
           post == NewPost(tasks[i].rec, post_type, tasks[i].topic, content, promo, now)
       IN /\ posts' = [posts EXCEPT ![NextPostId] = post]
          /\ tasks' = [tasks EXCEPT ![i] =
                finish(@, [status |-> "success", message |-> "created",
                           post_id |-> NextPostId])]
    /\ last' = [op |-> "generate_post_content_task_Finish", provider |-> provider, task |-> i,
                promotional_post |-> promotional_post]
    /\ UNCHANGED <<now, themes, chk, raises>>

\* the same, the agent's answer coming from an unobserved provider call
generate_post_content_task_Finish(i, content, promotional_post) == generate_post_content_task_Finish_From(i, content, promotional_post, Unobserved)

\* the exception is raised after Post.objects.create has stored the Post
generate_post_content_task_Raise_From_AfterCreate(i, provider) ==
    /\ tasks[i].pc = "called"
    /\ tasks[i].kind = "generate_post"
    /\ raises > 0
    /\ raises' = raises - 1
    /\ NextPostId \in PostIds
    /\ posts' = [posts EXCEPT ![NextPostId] =
                   NewPost(tasks[i].rec, tasks[i].post_type, tasks[i].topic, 1, NoText, now)]
    /\ IF tasks[i].retries < max_retries
       THEN tasks' = [tasks EXCEPT ![i] = retry(@)]
       ELSE tasks' = [tasks EXCEPT ![i] =
               finish(@, [status |-> "error", message |-> "exception"])]
    /\ last' = [op |-> "generate_post_content_task_Raise", provider |-> provider, task |-> i]
    /\ UNCHANGED <<now, themes, chk>>

\* generate_post_content_task, the except Exception handler
generate_post_content_task_Raise_From(i, provider) ==
    /\ tasks[i].pc = "called"
    /\ tasks[i].kind = "generate_post"
    /\ raises > 0
    /\ raises' = raises - 1
    /\ IF tasks[i].retries < max_retries
       THEN tasks' = [tasks EXCEPT ![i] = retry(@)]
       ELSE tasks' = [tasks EXCEPT ![i] =
               finish(@, [status |-> "error", message |-> "exception"])]
    /\ last' = [op |-> "generate_post_content_task_Raise", provider |-> provider, task |-> i]
    /\ UNCHANGED <<now, themes, posts, chk>>

\* the same, the exception coming from an unobserved provider call
generate_post_content_task_Raise(i) == generate_post_content_task_Raise_From(i, Unobserved)

\* Post.DoesNotExist is handled like any other exception: the task is retried
improve_post_content_task_Start_NotFoundRetried(i) ==
    /\ tasks[i].pc = "queued"
    /\ tasks[i].kind = "improve_post"
    /\ LET p == tasks[i].rec IN
       IF ~posts[p].exists
       THEN /\ tasks' = [tasks EXCEPT ![i] =
                   IF @.retries < max_retries
                   THEN retry(@)
                   ELSE finish(@, [status |-> "error", message |-> "exception"])]
            /\ UNCHANGED posts
       ELSE LET post == save([posts[p] EXCEPT !.processing_status = "processing"]) IN
            /\ posts' = [posts EXCEPT ![p] = post]
            /\ tasks' = [tasks EXCEPT ![i] = call(@, post)]
    /\ last' = [op |-> "improve_post_content_task_Start", task |-> i]
    /\ UNCHANGED <<now, themes, chk, raises>>

\* improve_post_content_task, up to the provider call: only processing_status is set
improve_post_content_task_Start(i) ==
    /\ tasks[i].pc = "queued"
    /\ tasks[i].kind = "improve_post"
    /\ LET p == tasks[i].rec IN
       IF ~posts[p].exists
       THEN /\ tasks' = [tasks EXCEPT ![i] =
                   finish(@, [status |-> "error", message |-> "not_found"])]
            /\ UNCHANGED posts
       ELSE LET post == save([posts[p] EXCEPT !.processing_status = "processing"]) IN
            /\ posts' = [posts EXCEPT ![p] = post]
            /\ tasks' = [tasks EXCEPT ![i] = call(@, post)]
    /\ last' = [op |-> "improve_post_content_task_Start", task |-> i]
    /\ UNCHANGED <<now, themes, chk, raises>>

\* generation_prompt += " | " + note
append_note(post, note) ==
    [post EXCEPT !.generation_prompt = Append(@, note)]

\* the answer is written without comparing it with the current content
improved_Unchecked(post, improved_content) ==
    IF improved_content # NoText
    THEN append_note([post EXCEPT !.content = improved_content,
                                   !.processing_status = "completed"],
                     "Melhorado")
    ELSE [post EXCEPT !.processing_status = "failed"]

\* what the task does with the Improvement Agent's answer (NoText: no improved_content)
improved(post, improved_content) ==
    IF improved_content # NoText
    THEN IF improved_content # post.content
         THEN append_note([post EXCEPT !.content = improved_content,
                                        !.processing_status = "completed"],
                          "Melhorado")
         ELSE [post EXCEPT !.processing_status = "failed"]
    ELSE [post EXCEPT !.processing_status = "failed"]

improved_result(post, improved_content, p) ==
    IF improved_content # NoText
    THEN IF improved_content # post.content
         THEN [status |-> "success", message |-> "Post melhorado! summary", post_id |-> p]
         ELSE [status |-> "error", message |-> "summary", post_id |-> p]
    ELSE [status |-> "error", message |-> "generic"]

\* improve_post_content_task, from the Improvement Agent's answer to the return
improve_post_content_task_Finish_From(i, improved_content, provider) ==
    /\ tasks[i].pc = "called"
    /\ tasks[i].kind = "improve_post"
    /\ LET p == tasks[i].rec
           post == tasks[i].local
       IN /\ posts' = [posts EXCEPT ![p] = save(improved(post, improved_content))]
          /\ tasks' = [tasks EXCEPT ![i] =
                finish(@, improved_result(post, improved_content, p))]
    /\ last' = [op |-> "improve_post_content_task_Finish", provider |-> provider, task |-> i,
                improved_content |-> improved_content, local |-> tasks[i].local]
    /\ UNCHANGED <<now, themes, chk, raises>>

\* the same, the agent's answer coming from an unobserved provider call
improve_post_content_task_Finish(i, improved_content) == improve_post_content_task_Finish_From(i, improved_content, Unobserved)

\* improve_post_content_task, the except Exception handler
improve_post_content_task_Raise_From(i, provider) ==
    /\ tasks[i].pc = "called"
    /\ tasks[i].kind = "improve_post"
    /\ raises > 0
    /\ raises' = raises - 1
    /\ LET p == tasks[i].rec IN
       IF tasks[i].retries < max_retries
       THEN /\ tasks' = [tasks EXCEPT ![i] = retry(@)]
            /\ UNCHANGED posts
       ELSE /\ posts' = [posts EXCEPT ![p] =
                   IF posts[p].exists
                   THEN save([posts[p] EXCEPT !.processing_status = "failed"])
                   ELSE posts[p]]
            /\ tasks' = [tasks EXCEPT ![i] =
                  finish(@, [status |-> "error", message |-> "exception"])]
    /\ last' = [op |-> "improve_post_content_task_Raise", provider |-> provider, task |-> i]
    /\ UNCHANGED <<now, themes, chk>>

\* the same, the exception coming from an unobserved provider call
improve_post_content_task_Raise(i) == improve_post_content_task_Raise_From(i, Unobserved)

\* regenerate_image_prompt_task, up to the provider call
regenerate_image_prompt_task_Start(i) ==
    /\ tasks[i].pc = "queued"
    /\ tasks[i].kind = "regenerate_image_prompt"
    /\ LET p == tasks[i].rec IN
       IF ~posts[p].exists
       THEN /\ tasks' = [tasks EXCEPT ![i] =
                   finish(@, [status |-> "error", message |-> "not_found"])]
            /\ UNCHANGED posts
       ELSE IF posts[p].post_type # "article"
       THEN /\ tasks' = [tasks EXCEPT ![i] =
                   finish(@, [status |-> "error", message |-> "not_article"])]
            /\ UNCHANGED posts
       ELSE LET post == save(mark(posts[p], TRUE, "processing")) IN
            /\ posts' = [posts EXCEPT ![p] = post]
            /\ tasks' = [tasks EXCEPT ![i] = call(@, post)]
    /\ last' = [op |-> "regenerate_image_prompt_task_Start", task |-> i]
    /\ UNCHANGED <<now, themes, chk, raises>>

\* regenerate_image_prompt_task, from the Image Prompt Agent's answer to the return
regenerate_image_prompt_task_Finish_From(i, cover_image_prompt, provider) ==
    /\ tasks[i].pc = "called"
    /\ tasks[i].kind = "regenerate_image_prompt"
    /\ LET p == tasks[i].rec
           post == tasks[i].local
           is_first_generation == post.cover_image_prompt = NoText
       IN IF cover_image_prompt # NoText
          THEN /\ posts' = [posts EXCEPT ![p] =
                     save(append_note(
                            [mark(post, FALSE, "completed") EXCEPT
                                !.cover_image_prompt = cover_image_prompt],
                            IF is_first_generation THEN "Imagem gerada"
                                                   ELSE "Imagem regenerada"))]
               /\ tasks' = [tasks EXCEPT ![i] =
                     finish(@, [status |-> "success", message |-> "style_notes",
                                post_id |-> p,
                                action_type |-> IF is_first_generation
                                                THEN "gerado" ELSE "regenerado"])]
          ELSE /\ posts' = [posts EXCEPT ![p] = save(mark(post, FALSE, "failed"))]
               /\ tasks' = [tasks EXCEPT ![i] =
                     finish(@, [status |-> "error", message |-> "generic"])]
    /\ last' = [op |-> "regenerate_image_prompt_task_Finish", provider |-> provider, task |-> i,
                local |-> tasks[i].local]
    /\ UNCHANGED <<now, themes, chk, raises>>

\* the same, the agent's answer coming from an unobserved provider call
regenerate_image_prompt_task_Finish(i, cover_image_prompt) == regenerate_image_prompt_task_Finish_From(i, cover_image_prompt, Unobserved)

\* regenerate_image_prompt_task, the except Exception handler
regenerate_image_prompt_task_Raise_From(i, provider) ==
    /\ tasks[i].pc = "called"
    /\ tasks[i].kind = "regenerate_image_prompt"
    /\ raises > 0
    /\ raises' = raises - 1
    /\ LET p == tasks[i].rec IN
       IF tasks[i].retries < max_retries
       THEN /\ tasks' = [tasks EXCEPT ![i] = retry(@)]
            /\ UNCHANGED posts
       ELSE /\ posts' = [posts EXCEPT ![p] =
                   IF posts[p].exists
                   THEN save(mark(posts[p], FALSE, "failed"))
                   ELSE posts[p]]
            /\ tasks' = [tasks EXCEPT ![i] =
                  finish(@, [status |-> "error", message |-> "exception"])]
    /\ last' = [op |-> "regenerate_image_prompt_task_Raise", provider |-> provider, task |-> i]
    /\ UNCHANGED <<now, themes, chk>>

\* the same, the exception coming from an unobserved provider call
regenerate_image_prompt_task_Raise(i) == regenerate_image_prompt_task_Raise_From(i, Unobserved)

\* PostViewSet.status: the read and the staleness test
PostViewSet_status(p) ==
    /\ chk.pc = "idle"
    /\ posts[p].exists
    /\ LET post == posts[p] IN
       IF stuck(post, now - StatusTimeoutMinutes)
       THEN /\ chk' = [pc |-> "stale", kind |-> "post", id |-> p,
                       row |-> mark(post, FALSE, "timeout")]
            /\ last' = [op |-> "status_read", kind |-> "post", id |-> p]
       ELSE /\ chk' = chk
            /\ last' = status_response("post", p, post)
    /\ UNCHANGED <<now, themes, posts, tasks, raises>>

\* the response is built from the copy, which is not saved
PostViewSet_status_save_Unsaved ==
    /\ chk.pc = "stale"
    /\ chk.kind = "post"
    /\ last' = status_response("post", chk.id, chk.row)
    /\ chk' = [pc |-> "idle"]
    /\ UNCHANGED <<now, themes, posts, tasks, raises>>

\* PostViewSet.status: post.save() of the stale copy, and the response
PostViewSet_status_save ==
    /\ chk.pc = "stale"
    /\ chk.kind = "post"
    /\ posts' = [posts EXCEPT ![chk.id] = save(chk.row)]
    /\ last' = status_response("post", chk.id, chk.row)
    /\ chk' = [pc |-> "idle"]
    /\ UNCHANGED <<now, themes, tasks, raises>>

\* cleanup_stuck_tasks: QuerySet.update() of the stuck rows (no auto_now stamp)
update(rows, ids, limit) ==
    [r \in DOMAIN rows |->
        IF r \in ids /\ rows[r].exists /\ stuck(rows[r], limit)
        THEN mark(rows[r], FALSE, "timeout")
        ELSE rows[r]]

applies_DryRunIgnored(dry_run, themes_stuck, posts_stuck) ==
    themes_stuck # {} \/ posts_stuck # {}

\* if not dry_run: if themes_stuck.exists() or posts_stuck.exists()
applies(dry_run, themes_stuck, posts_stuck) ==
    ~dry_run /\ (themes_stuck # {} \/ posts_stuck # {})

handle(older_than_minutes, dry_run) ==
    LET time_limit == now - older_than_minutes
        themes_stuck == {t \in ThemeIds : themes[t].exists /\ stuck(themes[t], time_limit)}
        posts_stuck == {p \in PostIds : posts[p].exists /\ stuck(posts[p], time_limit)}
    IN /\ IF applies(dry_run, themes_stuck, posts_stuck)
          THEN /\ themes' = update(themes, ThemeIds, time_limit)
               /\ posts' = update(posts, PostIds, time_limit)
          ELSE UNCHANGED <<themes, posts>>
       /\ last' = [op |-> "handle", dry_run |-> dry_run,
                   older_than |-> older_than_minutes, themes |-> themes, posts |-> posts,
                   themes_stuck |-> themes_stuck, posts_stuck |-> posts_stuck]
       /\ UNCHANGED <<now, tasks, chk, raises>>

Next ==
    \/ Tick
    \/ \E t \in ThemeIds : generate_topics(t)
    \/ \E i \in TaskIds : generate_topics_task_Start(i)
    \/ \E i \in TaskIds, k \in 0..MaxBatch : generate_topics_task_Finish(i, k)
    \/ \E i \in TaskIds : generate_topics_task_Raise(i)
    \/ \E t \in ThemeIds : ThemeViewSet_status(t)
    \/ ThemeViewSet_status_save
    \/ \E m \in OlderThanOptions, d \in BOOLEAN : handle(m, d)
    \/ \E p \in PostIds : improve(p)
    \/ \E p \in PostIds : regenerate_image_prompt(p)
    \/ \E t \in ThemeIds, topic \in TopicNames, pt \in PostTypes : generate_post(t, topic, pt)
    \/ \E i \in TaskIds : generate_post_content_task_Start(i)
    \/ \E i \in TaskIds, c \in {1}, promo \in {NoText, 1} :
          generate_post_content_task_Finish(i, c, promo)
    \/ \E i \in TaskIds : generate_post_content_task_Raise(i)
    \/ \E i \in TaskIds : improve_post_content_task_Start(i)
    \/ \E i \in TaskIds, c \in Contents \cup {NoText} : improve_post_content_task_Finish(i, c)
    \/ \E i \in TaskIds : improve_post_content_task_Raise(i)
    \/ \E i \in TaskIds : regenerate_image_prompt_task_Start(i)
    \/ \E i \in TaskIds, c \in {NoText, 1} : regenerate_image_prompt_task_Finish(i, c)
    \/ \E i \in TaskIds : regenerate_image_prompt_task_Raise(i)
    \/ \E p \in PostIds : PostViewSet_status(p)
    \/ PostViewSet_status_save

Spec == Init /\ [][Next]_vars

\* ========================================================= Prompt Agents

\* what the Provider Adapter's _make_request can do
Outcomes ==
    {"transport_error", "undecodable_envelope", "empty", "not_json", "array",
     "object_without_keys", "valid"}

\* the text of an agent's fallback value
FallbackText == MaxContent + 1

\* the exception leaves the agent
Raised == [shape |-> "raised"]

\* json.loads gave a value that is no object (a list, a string, a number, null)
NotAnObject == [shape |-> "array"]

TopicsObject(keys, k) == [shape |-> "object", keys |-> keys, topics |-> k]

\* AIServiceBase.generate_topics: the values it can return for an outcome; k is the
\* length of the topics list of a valid answer
AIServiceBase_generate_topics(outcome, k) ==
    CASE outcome = "valid" -> {TopicsObject({"topics"}, k)}
      [] outcome = "array" -> {NotAnObject}
      [] outcome = "object_without_keys" -> {TopicsObject({}, 0)}
      \* response.json() raises a JSONDecodeError: the handler reads response_text,
      \* which was never bound, unless the adapter raises another exception type
      [] outcome = "undecodable_envelope" -> {Raised, TopicsObject({"topics"}, 0)}
      [] OTHER -> {TopicsObject({"topics"}, 0)}

ContentKeys == {"title", "content", "seo_title", "seo_description"}

ContentObject(keys, content, promotional_post) ==
    [shape |-> "object", keys |-> keys, content |-> content,
     promotional_post |-> promotional_post]

\* AIServiceBase.generate_post_content
AIServiceBase_generate_post_content(outcome, content, promotional_post) ==
    CASE outcome = "valid" ->
             {ContentObject(ContentKeys \cup {"promotional_post"}, content, promotional_post)}
      [] outcome = "array" -> {NotAnObject}
      [] outcome = "object_without_keys" -> {ContentObject({}, NoText, NoText)}
      [] OTHER -> {ContentObject(ContentKeys, FallbackText, NoText)}

ImprovementObject(improved_content, improvement_summary) ==
    [shape |-> "object", keys |-> {"improved_content", "improvement_summary"},
     improved_content |-> improved_content,
     improvement_summary |-> improvement_summary]

\* the fallback is a placeholder text, as the Content Agent's is
AIServiceBase_improve_post_content_Placeholder(outcome, current_content, improved_content) ==
    IF outcome = "valid"
    THEN {ImprovementObject(improved_content, "summary")}
    ELSE {ImprovementObject(FallbackText, outcome)}

\* AIServiceBase.improve_post_content: every answer that is no object holding
\* improved_content gives the current content back, with a summary of the failure
AIServiceBase_improve_post_content(outcome, current_content, improved_content) ==
    IF outcome = "valid"
    THEN {ImprovementObject(improved_content, "summary")}
    ELSE {ImprovementObject(current_content, outcome)}

ImageObject(keys, cover_image_prompt) ==
    [shape |-> "object", keys |-> keys, cover_image_prompt |-> cover_image_prompt]

\* AIServiceBase.regenerate_cover_image_prompt
AIServiceBase_regenerate_cover_image_prompt(outcome, cover_image_prompt) ==
    CASE outcome = "valid" ->
             {ImageObject({"cover_image_prompt", "style_notes"}, cover_image_prompt)}
      [] outcome = "array" -> {NotAnObject}
      [] outcome = "object_without_keys" -> {ImageObject({}, NoText)}
      [] OTHER -> {ImageObject({"cover_image_prompt", "style_notes", "visual_elements"},
                               FallbackText)}

\* ------------------------------------------- task bodies around the agents

\* what a task step records of its provider call: the outcome, the agent's value
Provider(outcome, data) == [outcome |-> outcome, data |-> data]

\* generate_topics_task from the provider's outcome on: reading a result that is no
\* object raises in the body, as does an exception that left the agent
generate_topics_task_Respond(i, outcome, k) ==
    /\ tasks[i].pc = "called"
    /\ tasks[i].kind = "generate_topics"
    /\ \E topics_data \in AIServiceBase_generate_topics(outcome, k) :
        IF topics_data.shape = "object"
        THEN generate_topics_task_Finish_From(i, topics_data.topics,
                                              Provider(outcome, topics_data))
        ELSE generate_topics_task_Raise_From(i, Provider(outcome, topics_data))

\* Post.objects.create and post.save() of a row whose Theme is gone raise
\* (the foreign key)
generate_post_content_task_Respond(i, outcome, content, promotional_post) ==
    /\ tasks[i].pc = "called"
    /\ tasks[i].kind = "generate_post"
    /\ \E content_data \in AIServiceBase_generate_post_content(outcome, content,
                                                               promotional_post) :
        IF content_data.shape = "object" /\ themes[tasks[i].rec].exists
        THEN generate_post_content_task_Finish_From(i, content_data.content,
                                                    content_data.promotional_post,
                                                    Provider(outcome, content_data))
        ELSE generate_post_content_task_Raise_From(i, Provider(outcome, content_data))

improve_post_content_task_Respond(i, outcome, improved_content) ==
    /\ tasks[i].pc = "called"
    /\ tasks[i].kind = "improve_post"
    /\ \E improvement_data \in
           AIServiceBase_improve_post_content(outcome, tasks[i].local.content,
                                              improved_content) :
        IF themes[tasks[i].local.theme].exists
        THEN improve_post_content_task_Finish_From(i, improvement_data.improved_content,
                                                   Provider(outcome, improvement_data))
        ELSE improve_post_content_task_Raise_From(i, Provider(outcome, improvement_data))

regenerate_image_prompt_task_Respond(i, outcome, cover_image_prompt) ==
    /\ tasks[i].pc = "called"
    /\ tasks[i].kind = "regenerate_image_prompt"
    /\ \E image_data \in
           AIServiceBase_regenerate_cover_image_prompt(outcome, cover_image_prompt) :
        IF image_data.shape = "object" /\ themes[tasks[i].local.theme].exists
        THEN regenerate_image_prompt_task_Finish_From(i, image_data.cover_image_prompt,
                                                      Provider(outcome, image_data))
        ELSE regenerate_image_prompt_task_Raise_From(i, Provider(outcome, image_data))

\* ------------------------------------------------------- deleted records

\* PostViewSet.destroy / post_delete: post.delete()
destroy_post(p) ==
    /\ posts[p].exists
    /\ posts' = [posts EXCEPT ![p] = Deleted]
    /\ last' = [op |-> "destroy", kind |-> "post", id |-> p]
    /\ UNCHANGED <<now, themes, tasks, chk, raises>>

\* ThemeViewSet.destroy: the Theme's Posts go with it (on_delete=CASCADE)
destroy_theme(t) ==
    /\ themes[t].exists
    /\ themes' = [themes EXCEPT ![t] = Deleted]
    /\ posts' = [p \in PostIds |->
                   IF posts[p].exists /\ posts[p].theme = t THEN Deleted ELSE posts[p]]
    /\ last' = [op |-> "destroy", kind |-> "theme", id |-> t]
    /\ UNCHANGED <<now, tasks, chk, raises>>

\* regenerate_image_prompt_task.delay(post_id) by a caller other than the entry
\* point: the task is handed to the queue for any existing Post
regenerate_image_prompt_task_delay(p) ==
    /\ posts[p].exists
    /\ delay("regenerate_image_prompt", p, "none", "none")
    /\ last' = [op |-> "regenerate_image_prompt_task.delay", id |-> p]
    /\ UNCHANGED <<now, themes, posts, chk, raises>>

\* the tasks alone, each attempt of a task free to raise: no clock, no Reaper
InitTasks == InitRecords /\ raises = max_retries + 2

NextTasks ==
    \/ \E t \in ThemeIds : generate_topics(t)
    \/ \E p \in PostIds : improve(p)
    \/ \E p \in PostIds : regenerate_image_prompt(p)
    \/ \E p \in PostIds : regenerate_image_prompt_task_delay(p)
    \/ \E t \in ThemeIds, topic \in TopicNames, pt \in PostTypes : generate_post(t, topic, pt)
    \/ \E p \in PostIds : destroy_post(p)
    \/ \E t \in ThemeIds : destroy_theme(t)
    \/ \E i \in TaskIds : generate_topics_task_Start(i)
    \/ \E i \in TaskIds : generate_post_content_task_Start(i)
    \/ \E i \in TaskIds : improve_post_content_task_Start(i)
    \/ \E i \in TaskIds : regenerate_image_prompt_task_Start(i)
    \/ \E i \in TaskIds, o \in Outcomes, k \in 1..MaxBatch :
          generate_topics_task_Respond(i, o, k)
    \/ \E i \in TaskIds, o \in Outcomes, promo \in {NoText, 1} :
          generate_post_content_task_Respond(i, o, 1, promo)
    \/ \E i \in TaskIds, o \in Outcomes, c \in Contents :
          improve_post_content_task_Respond(i, o, c)
    \/ \E i \in TaskIds, o \in Outcomes :
          regenerate_image_prompt_task_Respond(i, o, 1)
    \/ \E i \in TaskIds : generate_topics_task_Raise(i)
    \/ \E i \in TaskIds : generate_post_content_task_Raise(i)
    \/ \E i \in TaskIds : improve_post_content_task_Raise(i)
    \/ \E i \in TaskIds : regenerate_image_prompt_task_Raise(i)

SpecTasks == InitTasks /\ [][NextTasks]_vars

\* ================================================= the Reaper, over time

Horizon == MaxTicks * StatusTimeoutMinutes

Max(a, b) == IF a >= b THEN a ELSE b

\* a row one staleness window later
Aged(row) ==
    IF row.exists
    THEN [row EXCEPT !.updated_at = Max(@ - StatusTimeoutMinutes, 0)]
    ELSE row

\* the clock past the horizon: a status-check compares updated_at with now only, so
\* time going on a window is every row's updated_at moving back a window
Tick_Relative ==
    /\ now = Horizon
    /\ themes' = [t \in ThemeIds |-> Aged(themes[t])]
    /\ posts' = [p \in PostIds |-> Aged(posts[p])]
    /\ last' = [op |-> "Tick"]
    /\ UNCHANGED <<now, tasks, chk, raises>>

\* the worker that holds task i: a Theme task, which clears the flag when it ends,
\* and a Post task, which does not
Worker(i) ==
    \/ generate_topics_task_Start(i)
    \/ \E k \in {0, 1} : generate_topics_task_Finish(i, k)
    \/ generate_topics_task_Raise(i)
    \/ improve_post_content_task_Start(i)
    \/ \E c \in Contents : improve_post_content_task_Finish(i, c)
    \/ improve_post_content_task_Raise(i)

\* the batch sweep with the status-check's window
Sweep == handle(StatusTimeoutMinutes, FALSE)

NextReaper ==
    \/ Tick
    \/ Tick_Relative
    \/ \E t \in ThemeIds : generate_topics(t)
    \/ \E p \in PostIds : improve(p)
    \/ \E i \in TaskIds : Worker(i)
    \/ \E t \in ThemeIds : ThemeViewSet_status(t)
    \/ ThemeViewSet_status_save
    \/ \E p \in PostIds : PostViewSet_status(p)
    \/ PostViewSet_status_save
    \/ Sweep

\* time passes; a worker that can take a step of its task takes one; a record is
\* swept or status-checked again and again, and a status-check that began ends
Fairness ==
    /\ WF_vars(Tick \/ Tick_Relative)
    /\ \A i \in TaskIds : WF_vars(Worker(i))
    /\ \A t \in ThemeIds :
          WF_vars(themes[t].exists /\ (ThemeViewSet_status(t) \/ Sweep))
    /\ \A p \in PostIds :
          WF_vars(posts[p].exists /\ (PostViewSet_status(p) \/ Sweep))
    /\ WF_vars(ThemeViewSet_status_save)
    /\ WF_vars(PostViewSet_status_save)

SpecReaper == Init /\ [][NextReaper]_vars /\ Fairness

\* ====================================================== task-status query

\* celery.states.READY_STATES: the states in which AsyncResult.ready() is true
READY_STATES == {"SUCCESS", "FAILURE", "REVOKED"}

\* Python's None
None == [type |-> "None"]

\* the worker running the body of task i is lost (killed, hard time limit) before
\* the body returns or its handler runs: the task is stored as failed
WorkerLost(i) ==
    /\ tasks[i].pc = "called"
    /\ tasks' = [tasks EXCEPT ![i] = [@ EXCEPT !.pc = "lost", !.local = NoRow]]
    /\ last' = [op |-> "WorkerLost", task |-> i]
    /\ UNCHANGED <<now, themes, posts, chk, raises>>

\* AsyncResult(task_id).state; a running body is STARTED only when the worker
\* tracks started tasks, and an id the backend knows nothing of is PENDING
AsyncResult_state(t, track_started) ==
    CASE t.pc = "done" -> "SUCCESS"
      [] t.pc = "lost" -> "FAILURE"
      [] t.pc = "queued" /\ t.retries > 0 -> "RETRY"
      [] t.pc = "called" /\ track_started -> "STARTED"
      [] OTHER -> "PENDING"

\* what the result backend holds for the task: the returned envelope, the
\* exception of a failed or retried attempt, the worker's data of a started one
AsyncResult_result(t, state) ==
    CASE state = "SUCCESS" -> [type |-> "dict", value |-> t.result]
      [] state \in {"FAILURE", "RETRY"} -> [type |-> "exception"]
      [] state = "STARTED" -> [type |-> "dict", value |-> [status |-> "started"]]
      [] OTHER -> None

\* TaskStatusViewSet.check / check_task_status; AsyncResult.info is its result
TaskStatusViewSet_check(i, track_started) ==
    /\ LET state == AsyncResult_state(tasks[i], track_started)
           result == AsyncResult_result(tasks[i], state)
           ready == state \in READY_STATES
       IN last' = [op |-> "check", task_id |-> i, state |-> state,
                   result |-> IF ready THEN result ELSE None,
                   info |-> IF ~ready THEN result ELSE None]
    /\ UNCHANGED <<now, themes, posts, tasks, chk, raises>>

\* ===================================================== AI service factory

\* AIServiceFactory.PROVIDERS, in the order the dict is written
PROVIDERS ==
    << <<"openai", "OpenAIService">>, <<"grok", "GrokService">>,
       <<"gemini", "GeminiService">> >>

\* provider keys a caller or the settings may name; the last two are not registered
ProviderKeys == {"openai", "grok", "gemini", "claude", "OpenAI"}

\* list(cls.PROVIDERS.keys())
get_available_providers == [j \in 1..Len(PROVIDERS) |-> PROVIDERS[j][1]]

\* provider in cls.PROVIDERS
registered(provider) == \E j \in 1..Len(PROVIDERS) : PROVIDERS[j][1] = provider

\* cls.PROVIDERS[provider]
service_class(provider) ==
    PROVIDERS[CHOOSE j \in 1..Len(PROVIDERS) : PROVIDERS[j][1] = provider][2]

\* an unknown key is served by the default provider
create_service_DefaultOnUnknown(provider) ==
    IF ~registered(provider)
    THEN [raised |-> "none", instance_of |-> service_class("openai")]
    ELSE [raised |-> "none", instance_of |-> service_class(provider)]

\* AIServiceFactory.create_service
create_service(provider) ==
    IF ~registered(provider)
    THEN [raised |-> "ValueError", message |-> "Unsupported provider",
          provider |-> provider, available |-> get_available_providers]
    ELSE [raised |-> "none", instance_of |-> service_class(provider)]

\* the Django settings: DEFAULT_AI_PROVIDER is set to a key, or is not set
SettingsOptions ==
    {[DEBUG |-> FALSE]} \cup
    {[DEBUG |-> FALSE, DEFAULT_AI_PROVIDER |-> k] : k \in ProviderKeys}

\* getattr(settings, "DEFAULT_AI_PROVIDER", "openai")
default_provider(settings) ==
    IF "DEFAULT_AI_PROVIDER" \in DOMAIN settings
    THEN settings.DEFAULT_AI_PROVIDER ELSE "openai"

\* get_default_ai_service: the log line reads PROVIDERS[default_provider] before
\* create_service is called
get_default_ai_service(settings) ==
    IF ~registered(default_provider(settings))
    THEN [raised |-> "KeyError", message |-> default_provider(settings)]
    ELSE create_service(default_provider(settings))

AIServiceFactory_create_service(provider) ==
    /\ last' = [op |-> "create_service", provider |-> provider,
                result |-> create_service(provider)]
    /\ UNCHANGED <<now, themes, posts, tasks, chk, raises>>

AIServiceFactory_get_available_providers ==
    /\ last' = [op |-> "get_available_providers", result |-> get_available_providers]
    /\ UNCHANGED <<now, themes, posts, tasks, chk, raises>>

resolve_default(settings) ==
    /\ last' = [op |-> "get_default_ai_service", settings |-> settings,
                result |-> get_default_ai_service(settings)]
    /\ UNCHANGED <<now, themes, posts, tasks, chk, raises>>

\* two kinds of task, their workers, the query of a task's status and the factory
NextQuery ==
    \/ \E t \in ThemeIds : generate_topics(t)
    \/ \E p \in PostIds : improve(p)
    \/ \E i \in TaskIds : Worker(i)
    \/ \E i \in TaskIds : WorkerLost(i)
    \/ \E i \in TaskIds, track_started \in BOOLEAN : TaskStatusViewSet_check(i, track_started)
    \/ \E provider \in ProviderKeys : AIServiceFactory_create_service(provider)
    \/ AIServiceFactory_get_available_providers
    \/ \E settings \in SettingsOptions : resolve_default(settings)

SpecQuery == InitTasks /\ [][NextQuery]_vars

\* ===================================================== publish and edit

STATUS_CHOICES == {"draft", "generated", "published", "scheduled"}

\* PostViewSet.publish / post_publish
PostViewSet_publish(p) ==
    /\ posts[p].exists
    /\ posts' = [posts EXCEPT ![p] =
                   save([@ EXCEPT !.status = "published", !.post_date = now])]
    /\ last' = [op |-> "publish", id |-> p]
    /\ UNCHANGED <<now, themes, tasks, chk, raises>>

\* post_edit / PostViewSet.update with PostUpdateSerializer: the submitted content
\* and status are written, with every other field of the row as it was read
post_edit(p, content, status) ==
    /\ posts[p].exists
    /\ status \in STATUS_CHOICES
    /\ posts' = [posts EXCEPT ![p] =
                   save([@ EXCEPT !.content = content, !.status = status])]
    /\ last' = [op |-> "edit", id |-> p, content |-> content, status |-> status]
    /\ UNCHANGED <<now, themes, tasks, chk, raises>>

\* a Post that is improved, given an image prompt, edited and published while the
\* Reaper watches it
NextEdits ==
    \/ Tick
    \/ \E p \in PostIds : improve(p)
    \/ \E p \in PostIds : regenerate_image_prompt(p)
    \/ \E i \in TaskIds : improve_post_content_task_Start(i)
    \/ \E i \in TaskIds, c \in Contents : improve_post_content_task_Finish(i, c)
    \/ \E i \in TaskIds : improve_post_content_task_Raise(i)
    \/ \E i \in TaskIds : regenerate_image_prompt_task_Start(i)
    \/ \E i \in TaskIds, c \in {NoText, 1} : regenerate_image_prompt_task_Finish(i, c)
    \/ \E i \in TaskIds : regenerate_image_prompt_task_Raise(i)
    \/ \E p \in PostIds : PostViewSet_publish(p)
    \/ \E p \in PostIds, status \in {"draft", "published"} :
          post_edit(p, FallbackText, status)
    \/ \E p \in PostIds : PostViewSet_status(p)
    \/ PostViewSet_status_save
    \/ Sweep

SpecEdits == Init /\ [][NextEdits]_vars

\* ================================================== workers, over time

\* the steps of the body of task i, whatever its kind
TaskBody(i) ==
    \/ generate_topics_task_Start(i)
    \/ \E k \in {0, 1} : generate_topics_task_Finish(i, k)
    \/ generate_topics_task_Raise(i)
    \/ generate_post_content_task_Start(i)
    \/ generate_post_content_task_Finish(i, 1, NoText)
    \/ generate_post_content_task_Raise(i)
    \/ improve_post_content_task_Start(i)
    \/ \E c \in Contents : improve_post_content_task_Finish(i, c)
    \/ improve_post_content_task_Raise(i)
    \/ regenerate_image_prompt_task_Start(i)
    \/ \E c \in {NoText, 1} : regenerate_image_prompt_task_Finish(i, c)
    \/ regenerate_image_prompt_task_Raise(i)

\* exceptions go on being raised: nothing but the retry policy ends a task whose
\* attempts all raise
MoreRaises ==
    /\ raises = 0
    /\ raises' = MaxRaises
    /\ last' = [op |-> "MoreRaises"]
    /\ UNCHANGED <<now, themes, posts, tasks, chk>>

NextWorkers ==
    \/ \E t \in ThemeIds : generate_topics(t)
    \/ \E t \in ThemeIds, topic \in TopicNames, pt \in PostTypes : generate_post(t, topic, pt)
    \/ \E p \in PostIds : improve(p)
    \/ \E p \in PostIds : regenerate_image_prompt(p)
    \/ \E i \in TaskIds : TaskBody(i)
    \/ MoreRaises

\* a worker that can take a step of its task takes one: every provider call
\* returns or raises
SpecWorkers == Init /\ [][NextWorkers]_vars /\ \A i \in TaskIds : WF_vars(TaskBody(i))

\* ========================================= sanitizer and Provider Adapters

\* the characters of a response text: a backslash, a letter that makes a JSON
\* escape with it, a letter that does not
Chars == {"\\", "n", "x"}

\* the characters of the lookahead class ["\\/bfnrt]
ValidEscapes == {"\"", "\\", "/", "b", "f", "n", "r", "t"}

Texts == UNION {[1..k -> Chars] : k \in 0..MaxLen}

\* the backslash at j matches \\(?![...]): what follows is no character of the class
unescaping(content, j) ==
    /\ content[j] = "\\"
    /\ ~(j < Len(content) /\ content[j + 1] \in ValidEscapes)

\* re.sub(r"\\(?![\"\\\/bfnrt])", "", content): every match is dropped, each
\* backslash being tested against the character that follows it in the input
remove_invalid_escapes(content) ==
    LET kept[j \in 0..Len(content)] ==
            IF j = 0 THEN <<>>
            ELSE IF unescaping(content, j) THEN kept[j - 1]
            ELSE Append(kept[j - 1], content[j])
    IN kept[Len(content)]

\* clean_json_response, the escape stage, applied once and once more
clean_json_response(content) ==
    /\ last' = [op |-> "clean_json_response", content |-> content,
                once |-> remove_invalid_escapes(content),
                twice |-> remove_invalid_escapes(remove_invalid_escapes(content))]
    /\ UNCHANGED <<now, themes, posts, tasks, chk, raises>>

Roles == {"system", "user", "assistant"}

\* the uniform message lists: the content of a message is its place in the list
MessageLists ==
    UNION {{[j \in 1..k |-> [content |-> j, role |-> roles[j]]] : roles \in [1..k -> Roles]} :
             k \in 1..MaxMessages}

\* OpenAIService._make_request: messages=messages
OpenAIService_request(messages) == messages

\* GrokService._make_request: "messages": messages
GrokService_request(messages) == messages

\* GeminiService._make_request: user and assistant messages are converted
GeminiService_request(messages) ==
    LET gemini_messages[j \in 0..Len(messages)] ==
            IF j = 0 THEN <<>>
            ELSE IF messages[j].role = "user"
            THEN Append(gemini_messages[j - 1],
                        [content |-> messages[j].content, role |-> "user"])
            ELSE IF messages[j].role = "assistant"
            THEN Append(gemini_messages[j - 1],
                        [content |-> messages[j].content, role |-> "model"])
            ELSE gemini_messages[j - 1]
    IN gemini_messages[Len(messages)]

make_request(adapter, messages, request) ==
    /\ last' = [op |-> "_make_request", adapter |-> adapter, messages |-> messages,
                request |-> request]
    /\ UNCHANGED <<now, themes, posts, tasks, chk, raises>>

OpenAIService_make_request(messages) ==
    make_request("OpenAIService", messages, OpenAIService_request(messages))

GrokService_make_request(messages) ==
    make_request("GrokService", messages, GrokService_request(messages))

GeminiService_make_request(messages) ==
    make_request("GeminiService", messages, GeminiService_request(messages))

NextAdapters ==
    \/ \E content \in Texts : clean_json_response(content)
    \/ \E messages \in MessageLists : OpenAIService_make_request(messages)
    \/ \E messages \in MessageLists : GrokService_make_request(messages)
    \/ \E messages \in MessageLists : GeminiService_make_request(messages)

SpecAdapters == Init /\ [][NextAdapters]_vars

\* ================================================================ claims

Rows == {themes[t] : t \in ThemeIds} \cup {posts[p] : p \in ExistingPosts}

IsPrefix(a, b) == Len(a) <= Len(b) /\ \A j \in 1..Len(a) : a[j] = b[j]

EnqueueOps == {"generate_topics", "generate_post", "improve", "regenerate_image_prompt"}

MarkingOps == {"generate_topics", "improve", "regenerate_image_prompt"}

\* the record an entry point was called on
Target == IF last.op \in {"generate_topics", "generate_post"}
          THEN themes[last.id] ELSE posts[last.id]

\* the task the latest step enqueued: the newest queued task
Enqueued(kind, rec) ==
    \E i \in TaskIds : /\ tasks[i].pc = "queued" /\ tasks[i].retries = 0
                       /\ tasks[i].kind = kind /\ tasks[i].rec = rec

\* what a status-check of the row made now would answer
Observed(row) ==
    IF stuck(row, now - StatusTimeoutMinutes)
    THEN status_response("row", 0, mark(row, FALSE, "timeout"))
    ELSE status_response("row", 0, row)

ObservedProcessing(row) ==
    /\ row.is_processing
    /\ row.processing_status = "processing"
    /\ Observed(row).is_processing
    /\ Observed(row).processing_status = "processing"
    /\ Observed(row).status = "processing"

\* C1: in every reachable state, every Theme and Post record with is_processing
\* true has processing_status "processing".
C1_ProcessingFlagImpliesStatus ==
    \A row \in Rows : row.is_processing => row.processing_status = "processing"

C3_TopicsMerged ==
    (last.op = "generate_topics_task_Finish" /\ last.k > 0) =>
        LET i == last.task
            theme == themes[tasks[i].rec]
            old == last.local.topics
        IN /\ Len(theme.topics) = Len(old) + last.k
           /\ IsPrefix(old, theme.topics)
           /\ \A j \in 1..last.k : theme.topics[Len(old) + j] = Batch(i, last.k)[j]
           /\ theme.topics_generated_at = now
           /\ theme.processing_status = "completed"
           /\ ~theme.is_processing
           /\ tasks[i].result.status = "success"
           /\ tasks[i].result.topics_count = Len(old) + last.k

C3_Witness ==
    /\ last.op = "generate_topics_task_Finish"
    /\ last.k = MaxBatch
    /\ Len(last.local.topics) > 0
    /\ Len(themes[tasks[last.task].rec].topics) = Len(last.local.topics) + MaxBatch

\* C4: a topic of a Theme's list is never removed or changed: in every step the
\* old list is a prefix of the new one.
C4_TopicsNeverRemoved ==
    [][\A t \in ThemeIds : IsPrefix(themes[t].topics, themes'[t].topics)]_vars

\* C5: at most one Post exists per (theme, post_type, topic) triple.
C5_OnePostPerTriple ==
    \A p, q \in ExistingPosts :
        (/\ posts[p].theme = posts[q].theme
         /\ posts[p].post_type = posts[q].post_type
         /\ posts[p].topic = posts[q].topic) => p = q

\* C6: when generate_post_content_task runs for a triple that already has a Post,
\* it returns "warning" with the id of an existing Post of the triple, calls no
\* agent and creates or modifies no record.
C6_ExistingPostWarning ==
    (last.op = "generate_post_content_task_Start" /\ last.found # {}) =>
        LET t == tasks[last.task]
        IN /\ t.pc = "done"
           /\ t.result.status = "warning"
           /\ t.result.post_id \in last.found
           /\ t.calls = last.calls
           /\ posts = last.posts
           /\ themes = last.themes

C6_Witness ==
    /\ last.op = "generate_post_content_task_Start"
    /\ last.found = {2}
    /\ tasks[last.task].result.status = "warning"

Swept(before, after, limit) ==
    IF before.exists /\ before.is_processing /\ before.updated_at < limit
    THEN /\ ~after.is_processing
         /\ after.processing_status = "timeout"
         /\ after = [before EXCEPT !.is_processing = FALSE,
                                   !.processing_status = "timeout"]
    ELSE after = before

C8_SweepFlipsExactlyStale ==
    (last.op = "handle" /\ ~last.dry_run) =>
        /\ \A t \in ThemeIds : Swept(last.themes[t], themes[t], now - last.older_than)
        /\ \A p \in PostIds : Swept(last.posts[p], posts[p], now - last.older_than)

\* a stale Theme is flipped while a Post exactly at the threshold is left alone
C8_Witness ==
    /\ last.op = "handle"
    /\ ~last.dry_run
    /\ \E t \in ThemeIds : /\ last.themes[t].is_processing
                           /\ themes[t].processing_status = "timeout"
    /\ \E p \in ExistingPosts : /\ posts[p].is_processing
                                /\ posts[p].updated_at = now - last.older_than

\* C9: a sweep in dry-run mode changes no field of any Theme or Post.
C9_DryRunChangesNothing ==
    (last.op = "handle" /\ last.dry_run) =>
        themes = last.themes /\ posts = last.posts

C9_Witness ==
    /\ last.op = "handle"
    /\ last.dry_run
    /\ last.themes_stuck # {}
    /\ last.posts_stuck # {}

\* C10: processing_status becomes "timeout" only in a step of the Reaper (sweep
\* or status-check) and only from "processing".
BecomesTimeout(before, after) ==
    before.exists /\ after.processing_status = "timeout"
                  /\ before.processing_status # "timeout"

C10_TimeoutOnlyFromProcessing ==
    [][/\ \A t \in ThemeIds : BecomesTimeout(themes[t], themes'[t]) =>
              /\ last'.op \in {"handle", "status"}
              /\ themes[t].processing_status = "processing"
       /\ \A p \in PostIds : BecomesTimeout(posts[p], posts'[p]) =>
              /\ last'.op \in {"handle", "status"}
              /\ posts[p].processing_status = "processing"]_vars

RaiseOps ==
    {"generate_topics_task_Raise", "generate_post_content_task_Raise",
     "improve_post_content_task_Raise", "regenerate_image_prompt_task_Raise"}

\* the record task i works on
RecordOf(i) ==
    IF tasks[i].kind \in {"generate_topics", "generate_post"}
    THEN themes[tasks[i].rec] ELSE posts[tasks[i].rec]

\* C12: a task is retried at most 3 times (at most 4 runs of its body reach the
\* provider call); the retry after the attempt with retry count r is delayed
\* 60 * (r + 1) seconds; an attempt that raises at r = 3 schedules no retry.
C12_RetryPolicy ==
    \A i \in TaskIds :
        /\ tasks[i].retries <= 3
        /\ tasks[i].calls <= 4
        /\ tasks[i].retries = 0 => tasks[i].countdown = 0
        /\ tasks[i].retries = 1 => tasks[i].countdown = 60
        /\ tasks[i].retries = 2 => tasks[i].countdown = 120
        /\ tasks[i].retries = 3 => tasks[i].countdown = 180
        /\ (last.op \in RaiseOps /\ last.task = i) =>
              \/ tasks[i].pc = "queued" /\ tasks[i].retries \in 1..3
              \/ tasks[i].pc = "done" /\ tasks[i].retries = 3
                                      /\ tasks[i].result.status = "error"

\* a task that raised on each of its four attempts, while exceptions could still
\* be raised
C12_Witness ==
    /\ last.op \in RaiseOps
    /\ tasks[last.task].pc = "done"
    /\ tasks[last.task].retries = 3
    /\ tasks[last.task].calls = 4
    /\ tasks[last.task].countdown = 180
    /\ raises > 0

\* C13: when the body of a generate_topics, improve_post or regenerate_image_prompt
\* task raises on its last allowed attempt, the record (if it still exists) ends
\* with processing_status "failed" and is_processing false, and the task returns
\* an "error" envelope with the exception's message.
C13_ExhaustedRetriesFailRecord ==
    (/\ last.op \in RaiseOps \ {"generate_post_content_task_Raise"}
     /\ tasks[last.task].pc = "done") =>
        /\ tasks[last.task].result.status = "error"
        /\ tasks[last.task].result.message = "exception"
        /\ RecordOf(last.task).exists =>
              /\ RecordOf(last.task).processing_status = "failed"
              /\ ~RecordOf(last.task).is_processing

\* provider outcomes that are transport errors
TransportErrors == {"transport_error", "undecodable_envelope"}

FinishOps ==
    {"generate_topics_task_Finish", "generate_post_content_task_Finish",
     "improve_post_content_task_Finish", "regenerate_image_prompt_task_Finish"}

\* the latest step is the end of a provider call of a task whose record exists
AfterProviderCall(outcomes) ==
    /\ last.op \in FinishOps \cup RaiseOps
    /\ last.provider.outcome \in outcomes
    /\ RecordOf(last.task).exists

\* C14: when the provider call of a task body fails with a transport error, the
\* attempt is retried under the retry policy (or, at the last attempt, ends with
\* the exception's error); it gives no success and no soft failure.
C14_TransportErrorRetried ==
    AfterProviderCall(TransportErrors) =>
        LET t == tasks[last.task]
        IN /\ last.op \in RaiseOps
           /\ \/ t.pc = "queued" /\ t.retries \in 1..max_retries
              \/ t.pc = "done" /\ t.retries = max_retries
                               /\ t.result.message = "exception"

\* C15: an attempt that raises and is going to be retried does not set the
\* record's processing_status to "failed".
C15_FailedOnlyAfterRetries ==
    [][\A i \in TaskIds :
          (tasks[i].pc = "called" /\ tasks'[i].pc = "queued") =>
              /\ \A t \in ThemeIds :
                    (themes'[t].exists /\ themes'[t].processing_status = "failed") =>
                        (themes[t].exists /\ themes[t].processing_status = "failed")
              /\ \A p \in PostIds :
                    (posts'[p].exists /\ posts'[p].processing_status = "failed") =>
                        (posts[p].exists /\ posts[p].processing_status = "failed")]_vars

\* the step did not schedule a retry of task i
NotRetried(i) == tasks'[i].pc = "done" /\ tasks'[i].retries = tasks[i].retries

\* C16: when the provider returns text that is no JSON, no task schedules a retry;
\* the topic, content and image-prompt tasks do not fail (no "error" result, no
\* "failed" record); the improvement task fails and keeps the content.
C16_ParseErrorNeverFailsTask ==
    AfterProviderCall({"not_json"}) =>
        LET t == tasks[last.task]
        IN /\ last.op \in FinishOps
           /\ t.pc = "done"
           /\ IF t.kind = "improve_post"
              THEN /\ t.result.status = "error"
                   /\ RecordOf(last.task).processing_status = "failed"
                   /\ RecordOf(last.task).content = last.local.content
              ELSE /\ t.result.status # "error"
                   /\ t.kind # "generate_post" =>
                          RecordOf(last.task).processing_status # "failed"

\* the keys of the result type of the agent a task kind calls
ResultKeys(kind) ==
    CASE kind = "generate_topics" -> {"topics"}
      [] kind = "generate_post" -> ContentKeys
      [] kind = "improve_post" -> {"improved_content", "improvement_summary"}
      [] kind = "regenerate_image_prompt" -> {"cover_image_prompt"}

\* C17: for every provider outcome each Prompt Agent returns, without raising, an
\* object of its result type, so a task body that reads the agent's result does
\* not raise.
C17_AgentsAlwaysWellTyped ==
    AfterProviderCall(Outcomes) =>
        /\ last.provider.data.shape = "object"
        /\ ResultKeys(tasks[last.task].kind) \subseteq last.provider.data.keys
        /\ last.op \in FinishOps

\* the body of task i starts and its Theme or Post does not exist
StartsWithoutRecord(i) ==
    /\ ~RecordOf(i).exists
    /\ \/ generate_topics_task_Start(i)
       \/ generate_post_content_task_Start(i)
       \/ improve_post_content_task_Start(i)
       \/ regenerate_image_prompt_task_Start(i)

\* C18: a task body that starts when its Theme or Post does not exist returns
\* "error" on that attempt, schedules no retry and creates or modifies no record.
C18_NotFoundIsTerminal ==
    [][\A i \in TaskIds :
          (tasks[i].pc = "queued" /\ StartsWithoutRecord(i)) =>
              /\ NotRetried(i)
              /\ tasks'[i].result.status = "error"
              /\ tasks'[i].result.message = "not_found"
              /\ tasks'[i].calls = tasks[i].calls
              /\ UNCHANGED <<themes, posts>>]_vars

\* a retried improve_post task finds its Post deleted
C18_Witness ==
    /\ last.op = "improve_post_content_task_Start"
    /\ posts[tasks[last.task].rec] = Deleted
    /\ tasks[last.task].result.message = "not_found"
    /\ tasks[last.task].retries > 0

\* C19: for a Post that is no article, the regenerate-image entry point rejects
\* the request and enqueues nothing, and neither it nor the task body changes a
\* field of the Post.
C19_NonArticleRejected ==
    [][/\ \A p \in PostIds :
             (posts[p].exists /\ posts[p].post_type # "article"
                              /\ regenerate_image_prompt(p)) =>
                 /\ last'.http = 400
                 /\ UNCHANGED <<themes, posts, tasks>>
       /\ \A i \in TaskIds :
             (/\ tasks[i].pc = "queued"
              /\ tasks[i].kind = "regenerate_image_prompt"
              /\ posts[tasks[i].rec].exists
              /\ posts[tasks[i].rec].post_type # "article"
              /\ regenerate_image_prompt_task_Start(i)) =>
                 /\ NotRetried(i)
                 /\ tasks'[i].result.status = "error"
                 /\ tasks'[i].calls = tasks[i].calls
                 /\ UNCHANGED <<themes, posts>>]_vars

\* the entry point has rejected a simple Post, whose task body, handed to the
\* queue another way, had returned its error
C19_Witness ==
    /\ last.op = "regenerate_image_prompt"
    /\ last.http = 400
    /\ posts[last.id].post_type = "simple"
    /\ \E i \in TaskIds : /\ tasks[i].rec = last.id
                          /\ tasks[i].kind = "regenerate_image_prompt"
                          /\ tasks[i].pc = "done"
                          /\ tasks[i].result.message = "not_article"

\* C20: every run of a task body that schedules no retry returns an envelope with
\* a status among "success", "warning", "error" and a message.
C20_EveryTaskReturnsEnvelope ==
    \A i \in TaskIds :
        /\ tasks[i].pc \in {"free", "queued", "called", "done"}
        /\ tasks[i].pc = "done" =>
              /\ tasks[i].result.status \in {"success", "warning", "error"}
              /\ "message" \in DOMAIN tasks[i].result

\* one task ended by exhausting its retries, the other on a missing record
C20_Witness ==
    \E i, j \in TaskIds :
        /\ tasks[i].pc = "done" /\ tasks[i].result.message = "exception"
        /\ tasks[j].pc = "done" /\ tasks[j].result.message = "not_found"

\* the row a status-check of (kind, id) reads
Queried(kind, id) == IF kind = "theme" THEN themes[id] ELSE posts[id]

\* every record but (kind, id) is left as it was
OthersUnchanged(kind, id) ==
    /\ \A t \in ThemeIds : (kind # "theme" \/ t # id) => themes'[t] = themes[t]
    /\ \A p \in PostIds : (kind # "post" \/ p # id) => posts'[p] = posts[p]

\* C21: a status-check of a Theme or Post that finds is_processing true and
\* updated_at older than 5 minutes persists is_processing false and
\* processing_status "timeout" and reports these values; otherwise it changes no
\* field of the record and reports the values it read. The reported status is
\* "processing" exactly when the reported is_processing is true, and no other
\* record is modified.
C21_StatusCheckHealsOnlyStale ==
    [][/\ last'.op = "status_read" =>
             /\ UNCHANGED <<themes, posts>>
             /\ Queried(last'.kind, last'.id).is_processing
             /\ Queried(last'.kind, last'.id).updated_at < now - StatusTimeoutMinutes
             /\ chk'.pc = "stale"
       /\ (last'.op = "status" /\ chk.pc = "stale") =>
             LET after == IF last'.kind = "theme" THEN themes'[last'.id]
                                                  ELSE posts'[last'.id]
             IN /\ ~after.is_processing
                /\ after.processing_status = "timeout"
                /\ ~last'.is_processing
                /\ last'.processing_status = "timeout"
                /\ last'.status = "completed"
                /\ OthersUnchanged(last'.kind, last'.id)
       /\ (last'.op = "status" /\ chk.pc = "idle") =>
             LET row == Queried(last'.kind, last'.id)
             IN /\ UNCHANGED <<themes, posts>>
                /\ ~(row.is_processing /\ row.updated_at < now - StatusTimeoutMinutes)
                /\ last'.is_processing = row.is_processing
                /\ last'.processing_status = row.processing_status
                /\ last'.status = IF row.is_processing THEN "processing"
                                                        ELSE "completed"]_vars

\* a stale Theme was healed by its status-check while a stale Post, which was not
\* queried, is still marked
C21_Witness ==
    /\ last.op = "status"
    /\ last.kind = "theme"
    /\ last.processing_status = "timeout"
    /\ themes[last.id].processing_status = "timeout"
    /\ ~themes[last.id].is_processing
    /\ \E p \in ExistingPosts : stuck(posts[p], now - StatusTimeoutMinutes)

\* C22: a task-status query returns a non-null result only when the task's state
\* is a terminal success and a non-null info only when the task is not yet
\* terminal; a task in the failure state yields no result.
C22_ResultOnlyOnSuccess ==
    last.op = "check" =>
        /\ last.result # None => last.state = "SUCCESS"
        /\ last.info # None => last.state \notin READY_STATES
        /\ last.state = "FAILURE" => last.result = None

\* the class the source registers under a key
RegisteredClass(provider) ==
    CASE provider = "openai" -> "OpenAIService"
      [] provider = "grok" -> "GrokService"
      [] provider = "gemini" -> "GeminiService"

\* the "unsupported provider" error, which lists the valid keys
UnsupportedProvider(result, provider) ==
    /\ result.raised = "ValueError"
    /\ result.message = "Unsupported provider"
    /\ result.provider = provider
    /\ result.available = <<"openai", "grok", "gemini">>

\* C27: create_service(key) returns an adapter of the class registered under the
\* key for every key of get_available_providers and fails for every other key with
\* an "unsupported provider" error that lists the valid keys;
\* get_available_providers returns openai, grok, gemini in that order.
C27_FactoryCreatesRegistered ==
    /\ last.op = "get_available_providers" =>
           last.result = <<"openai", "grok", "gemini">>
    /\ last.op = "create_service" =>
           IF last.provider \in {"openai", "grok", "gemini"}
           THEN /\ last.result.raised = "none"
                /\ last.result.instance_of = RegisteredClass(last.provider)
           ELSE UnsupportedProvider(last.result, last.provider)

\* a key that differs from a registered one by its case only is refused
C27_Witness ==
    /\ last.op = "create_service"
    /\ last.provider = "OpenAI"
    /\ last.result.raised = "ValueError"
    /\ Len(last.result.available) = 3

\* C28: get_default_ai_service returns the adapter registered under the
\* configured DEFAULT_AI_PROVIDER, or the one registered under "openai" when none
\* is configured; when the configured key is not registered it fails with the
\* "unsupported provider" error that lists the valid keys.
C28_DefaultResolvesOrFailsLoud ==
    last.op = "get_default_ai_service" =>
        IF "DEFAULT_AI_PROVIDER" \notin DOMAIN last.settings
        THEN /\ last.result.raised = "none"
             /\ last.result.instance_of = "OpenAIService"
        ELSE IF last.settings.DEFAULT_AI_PROVIDER \in {"openai", "grok", "gemini"}
        THEN /\ last.result.raised = "none"
             /\ last.result.instance_of =
                    RegisteredClass(last.settings.DEFAULT_AI_PROVIDER)
        ELSE UnsupportedProvider(last.result, last.settings.DEFAULT_AI_PROVIDER)

\* the step ends an attempt of task i, a Post task whose row exists
EndsPostAttempt(i) ==
    /\ tasks[i].pc = "called"
    /\ tasks'[i].pc # "called"
    /\ tasks[i].kind \in {"improve_post", "regenerate_image_prompt"}
    /\ posts[tasks[i].rec].exists

\* C23: the write that ends an improve_post or regenerate_image_prompt task
\* changes only the fields the task kind owns: the Post's status and publish
\* timestamp, and for the image-prompt task its content, stay as a publish or an
\* edit committed during the task left them.
C23_TaskWriteKeepsOtherFields ==
    [][\A i \in TaskIds :
          EndsPostAttempt(i) =>
              LET before == posts[tasks[i].rec]
                  after == posts'[tasks[i].rec]
              IN /\ after.status = before.status
                 /\ after.post_date = before.post_date
                 /\ tasks[i].kind = "regenerate_image_prompt" =>
                        after.content = before.content]_vars

\* C24: two tasks on the same record are not mutually excluded: an enqueue for a
\* record whose is_processing is already true is accepted (whenever the queue of
\* the model has room), and the write that ends an improve_post task stores what
\* that task computed from the copy it loaded, whatever another task of the same
\* Post has written since.
C24_NoMutualExclusion ==
    /\ \A p \in PostIds :
          (posts[p].exists /\ posts[p].is_processing /\ FreeSlots # {}) =>
              ENABLED improve(p)
    /\ \A t \in ThemeIds :
          (themes[t].exists /\ themes[t].is_processing /\ FreeSlots # {}) =>
              ENABLED generate_topics(t)
    /\ last.op = "improve_post_content_task_Finish" =>
          posts[tasks[last.task].rec] =
              save(improved(last.local, last.improved_content))

\* two improve_post tasks of one Post were running at once and both succeeded; the
\* Post holds the note of the later write only
C24_Witness ==
    /\ last.op = "improve_post_content_task_Finish"
    /\ \E i, j \in TaskIds :
          /\ i # j
          /\ tasks[i].kind = "improve_post" /\ tasks[j].kind = "improve_post"
          /\ tasks[i].rec = tasks[j].rec
          /\ tasks[i].pc = "done" /\ tasks[j].pc = "done"
          /\ tasks[i].result.status = "success"
          /\ tasks[j].result.status = "success"
          /\ posts[tasks[i].rec].generation_prompt = <<"Topico", "Melhorado">>

\* the staleness window of the Reaper step just taken
WindowOf(response) ==
    IF response.op = "handle" THEN response.older_than ELSE StatusTimeoutMinutes

\* a Reaper step left the row alone, or flipped a row that was stale when the step
\* was taken
FlippedAtomically(before, after, limit) ==
    after # before =>
        /\ before.exists
        /\ stuck(before, limit)
        /\ [after EXCEPT !.updated_at = before.updated_at] =
              mark(before, FALSE, "timeout")

\* C25: the Reaper's flip is atomic with its staleness test, in the sweep and in
\* the status-check: the write of a Reaper step turns into "timeout" only a
\* record that is stale when the write is made, and changes no other field, so
\* the outcome a task wrote after the Reaper read the record is not reverted.
C25_ReaperFlipAtomic ==
    [][last'.op \in {"handle", "status"} =>
          /\ \A t \in ThemeIds :
                FlippedAtomically(themes[t], themes'[t], now - WindowOf(last'))
          /\ \A p \in PostIds :
                FlippedAtomically(posts[p], posts'[p], now - WindowOf(last'))]_vars

\* C26: a Post's status becomes "published" only in a step of the publish
\* operation, which sets the publish timestamp in the same step; no task,
\* status-check, sweep or edit moves a Post to "published".
C26_PublishedOnlyByPublish ==
    [][\A p \in PostIds :
          (/\ posts'[p].exists
           /\ posts'[p].status = "published"
           /\ ~(posts[p].exists /\ posts[p].status = "published")) =>
              /\ last'.op = "publish"
              /\ last'.id = p
              /\ posts'[p].post_date = now]_vars

\* C29: with its default parameters the batch sweep uses the status-check's
\* staleness window of 5 minutes: a sweep run without --older-than flips every
\* record that has is_processing true and was last updated more than 5 minutes
\* before, as a status-check of the record would.
C29_SweepUsesStatusCheckWindow ==
    (last.op = "handle" /\ ~last.dry_run /\ last.older_than = DefaultOlderThan) =>
        /\ \A t \in ThemeIds :
              (last.themes[t].exists
                 /\ stuck(last.themes[t], now - StatusTimeoutMinutes)) =>
                  /\ ~themes[t].is_processing
                  /\ themes[t].processing_status = "timeout"
        /\ \A p \in PostIds :
              (last.posts[p].exists
                 /\ stuck(last.posts[p], now - StatusTimeoutMinutes)) =>
                  /\ ~posts[p].is_processing
                  /\ posts[p].processing_status = "timeout"

\* C30: for every provider outcome that gives the Improvement Agent no improved
\* content (the call raises, the answer is empty, no improved_content can be
\* parsed or extracted), the agent returns the content it was given with a
\* diagnostic summary; the improve_post task then ends without a retry, the Post
\* holds the content the task read, its processing_status is "failed" and the
\* result status is "error".
C30_FailedImprovementKeepsContent ==
    (AfterProviderCall(Outcomes \ {"valid"})
       /\ tasks[last.task].kind = "improve_post") =>
        LET t == tasks[last.task]
            post == posts[t.rec]
        IN /\ last.op = "improve_post_content_task_Finish"
           /\ last.provider.data.improved_content = last.local.content
           /\ last.provider.data.improvement_summary # "summary"
           /\ t.pc = "done"
           /\ t.result.status = "error"
           /\ post.content = last.local.content
           /\ post.generation_prompt = last.local.generation_prompt
           /\ post.processing_status = "failed"

\* the provider call of an improve_post task raised, and the task ended at once
C30_Witness ==
    /\ last.op = "improve_post_content_task_Finish"
    /\ last.provider.outcome = "transport_error"
    /\ tasks[last.task].retries = 0
    /\ tasks[last.task].result.status = "error"
    /\ posts[tasks[last.task].rec].processing_status = "failed"
    /\ posts[tasks[last.task].rec].content = last.local.content

\* C31: when the content the improve_post task receives differs from the content
\* of the Post it holds, the Post's content becomes the received content,
\* processing_status becomes "completed" and the generation log is the log the
\* task read followed by one note; and no step ever removes or changes a note:
\* in every step the old log of a Post is a prefix of its new log.
C31_GenerationLogAppendOnly ==
    [][/\ \A i \in TaskIds, c \in Contents :
             (/\ improve_post_content_task_Finish(i, c)
              /\ c # tasks[i].local.content) =>
                 LET after == posts'[tasks[i].rec]
                 IN /\ after.content = c
                    /\ after.processing_status = "completed"
                    /\ Len(after.generation_prompt) =
                          Len(tasks[i].local.generation_prompt) + 1
                    /\ IsPrefix(tasks[i].local.generation_prompt,
                                after.generation_prompt)
       /\ \A p \in PostIds :
             (posts[p].exists /\ posts'[p].exists) =>
                 IsPrefix(posts[p].generation_prompt, posts'[p].generation_prompt)]_vars

\* C32: when the Topic Agent returns an empty batch without raising, the
\* generate_topics task sets processing_status "failed" and is_processing false,
\* leaves the topic list and topics_generated_at as the task read them, returns
\* "error" and schedules no retry.
C32_EmptyBatchSoftFailure ==
    (last.op = "generate_topics_task_Finish" /\ last.k = 0) =>
        LET i == last.task
            theme == themes[tasks[i].rec]
        IN /\ theme.processing_status = "failed"
           /\ ~theme.is_processing
           /\ theme.topics = last.local.topics
           /\ theme.topics_generated_at = last.local.topics_generated_at
           /\ tasks[i].pc = "done"
           /\ tasks[i].result.status = "error"

\* an empty batch for a Theme that had topics from an earlier run
C32_Witness ==
    /\ last.op = "generate_topics_task_Finish"
    /\ last.k = 0
    /\ Len(last.local.topics) > 0
    /\ last.local.topics_generated_at # Never
    /\ themes[tasks[last.task].rec].processing_status = "failed"
    /\ tasks[last.task].retries = 0

\* C33: a generate_post task that completes after finding no Post of its
\* (theme, post_type, topic) creates exactly one Post, with that theme, post_type
\* and topic, status "generated" and a generation timestamp; promotional_post is
\* set on it only when post_type is "article" and the agent's result carries a
\* non-empty promotional post. No other record changes.
C33_GeneratePostCreatesOne ==
    [][last'.op = "generate_post_content_task_Finish" =>
          LET i == last'.task
              created == {p \in PostIds : ~posts[p].exists /\ posts'[p].exists}
          IN /\ Cardinality(created) = 1
             /\ \A p \in PostIds \ created : posts'[p] = posts[p]
             /\ themes' = themes
             /\ tasks'[i].result.status = "success"
             /\ \A p \in created :
                   /\ tasks'[i].result.post_id = p
                   /\ posts'[p].theme = tasks[i].rec
                   /\ posts'[p].post_type = tasks[i].post_type
                   /\ posts'[p].topic = tasks[i].topic
                   /\ posts'[p].status = "generated"
                   /\ posts'[p].generated_at # Never
                   /\ posts'[p].generated_at = now
                   /\ posts'[p].promotional_post =
                         IF tasks[i].post_type = "article"
                         THEN last'.promotional_post ELSE NoText]_vars

\* an article was created with the promotional post of the agent's result
C33_Witness ==
    /\ last.op = "generate_post_content_task_Finish"
    /\ last.promotional_post # NoText
    /\ tasks[last.task].post_type = "article"
    /\ posts[tasks[last.task].result.post_id].promotional_post = last.promotional_post
    /\ posts[tasks[last.task].result.post_id].status = "generated"

\* C34: under fair workers, provider calls that return or raise, and exceptions
\* that may be raised at every attempt, every enqueued task reaches a final
\* execution that returns an envelope: no task retries forever.
C34_EveryTaskStops ==
    \A i \in TaskIds :
        (tasks[i].pc \in {"queued", "called"}) ~>
            (/\ tasks[i].pc = "done"
             /\ tasks[i].result.status \in {"success", "warning", "error"})

\* one task ended by exhausting its retries while the other completed at once
C34_Witness ==
    \E i, j \in TaskIds :
        /\ tasks[i].pc = "done" /\ tasks[i].retries = max_retries
        /\ tasks[i].calls = max_retries + 1
        /\ tasks[i].result.message = "exception"
        /\ tasks[j].pc = "done" /\ tasks[j].retries = 0
        /\ tasks[j].result.status = "success"

StartOps ==
    {"generate_topics_task_Start", "improve_post_content_task_Start",
     "regenerate_image_prompt_task_Start"}

\* C35: right after a generate_topics, improve_post or regenerate_image_prompt
\* task body, enqueued by its entry point, has returned its envelope on any path,
\* the record (if it exists) has is_processing false, and a status-check made
\* then reports status "completed".
C35_TaskReturnClearsFlag ==
    (/\ last.op \in StartOps \cup FinishOps \cup RaiseOps
     /\ tasks[last.task].pc = "done"
     /\ tasks[last.task].kind # "generate_post"
     /\ RecordOf(last.task).exists) =>
        /\ ~RecordOf(last.task).is_processing
        /\ Observed(RecordOf(last.task)).status = "completed"

\* the row was reset by the Reaper and the step changes one of the two fields
LeavesTimeout(before, after) ==
    /\ before.exists
    /\ after.exists
    /\ ~before.is_processing
    /\ before.processing_status = "timeout"
    /\ \/ after.is_processing
       \/ after.processing_status # "timeout"

\* C36: a record the Reaper has set to is_processing false, "timeout" keeps these
\* two values until the record is enqueued again: the only step that changes them
\* is an entry point's enqueue for that record, never the finish or retry of a
\* task that was running when the Reaper acted.
C36_TimeoutStaysUntilEnqueue ==
    [][/\ \A t \in ThemeIds :
             LeavesTimeout(themes[t], themes'[t]) =>
                 (last'.op = "generate_topics" /\ last'.id = t)
       /\ \A p \in PostIds :
             LeavesTimeout(posts[p], posts'[p]) =>
                 (last'.op \in {"improve", "regenerate_image_prompt"}
                    /\ last'.id = p)]_vars

\* the Posts a step creates
Created == {p \in PostIds : posts[p] = NoPost /\ posts'[p].exists}

\* C37: one generate_post task creates at most one Post over all its attempts: a
\* step of the task that creates a Post is the return of the task, after which
\* the task takes no step; an attempt that raises creates none, and a retry that
\* finds a Post of its triple returns "warning" and creates none.
C37_OnePostPerTask ==
    [][\A i \in TaskIds :
          /\ tasks[i].pc = "done" => tasks'[i] = tasks[i]
          /\ (tasks[i].kind = "generate_post" /\ tasks'[i] # tasks[i]) =>
                /\ Cardinality(Created) <= 1
                /\ Created # {} =>
                      /\ tasks'[i].pc = "done"
                      /\ tasks'[i].result.status = "success"
                      /\ tasks'[i].result.post_id \in Created
                /\ (/\ tasks[i].pc = "queued"
                    /\ tasks[i].retries > 0
                    /\ themes[tasks[i].rec].exists
                    /\ filter(tasks[i].rec, tasks[i].post_type, tasks[i].topic) # {}) =>
                      /\ tasks'[i].pc = "done"
                      /\ tasks'[i].result.status = "warning"
                      /\ Created = {}]_vars

\* a generate_post task whose first attempt raised found, when retried, the Post
\* another task had created meanwhile
C37_Witness ==
    /\ last.op = "generate_post_content_task_Start"
    /\ tasks[last.task].pc = "done"
    /\ tasks[last.task].retries > 0
    /\ tasks[last.task].result.status = "warning"
    /\ \E j \in TaskIds \ {last.task} :
          /\ tasks[j].kind = "generate_post"
          /\ tasks[j].pc = "done"
          /\ tasks[j].result.status = "success"
          /\ tasks[j].result.post_id = tasks[last.task].result.post_id

\* the text is made of plain characters and recognized two-character escapes
WellEscaped(content) ==
    LET ok[j \in 1..(Len(content) + 2)] ==
            IF j > Len(content) THEN TRUE
            ELSE IF content[j] # "\\" THEN ok[j + 1]
            ELSE /\ j < Len(content)
                 /\ content[j + 1] \in ValidEscapes
                 /\ ok[j + 2]
    IN ok[1]

\* C38: the escape stage of the sanitizer returns unchanged every text made only
\* of plain characters and recognized two-character escapes (an escaped backslash
\* followed by any character included), and applying the stage twice gives what
\* applying it once gives.
C38_EscapeStageKeepsValidEscapes ==
    last.op = "clean_json_response" =>
        /\ WellEscaped(last.content) => last.once = last.content
        /\ last.twice = last.once

\* C39: every Provider Adapter forwards every message of the list to the vendor,
\* in order and with its content: the vendor request has as many messages as the
\* list, system messages included.
C39_AdaptersForwardEveryMessage ==
    last.op = "_make_request" =>
        /\ Len(last.request) = Len(last.messages)
        /\ \A j \in 1..Len(last.request) :
              j <= Len(last.messages) =>
                  last.request[j].content = last.messages[j].content

====
